---- MODULE Spec2Model ----
(***************************************************************************)
(* RunLoader (tb_plugin/torch_tb_profiler/profiler/loader.py): the loading *)
(* pipeline of one run directory (load, _process_data, _process_spans) and *)
(* the cross-worker communication alignment                                *)
(* (_process_distributed_profiles).                                        *)
(*                                                                         *)
(* Python values: None is the empty tuple and a present optional value x   *)
(* is <<x>>; a str is the sequence of its character codes; a list is a     *)
(* sequence; a tuple (a, b) is <<a, b>>.                                   *)
(***************************************************************************)
EXTENDS Integers, Sequences, FiniteSets, TLC

None == <<>>
Some(x) == <<x>>

Range(s) == {s[i] : i \in DOMAIN s}

RemoveAt(s, i) == [k \in 1..(Len(s) - 1) |-> IF k < i THEN s[k] ELSE s[k + 1]]

InsertAt(s, i, x) ==
    [k \in 1..(Len(s) + 1) |-> IF k < i THEN s[k] ELSE IF k = i THEN x ELSE s[k - 1]]

(***************************************************************************)
(* Bounds of the model.                                                    *)
(***************************************************************************)
\* the largest number of entries io.listdir returns for the run directory
MaxEntries == 3

(***************************************************************************)
(* The run directory.  A file name is worker + span + extension, held in   *)
(* its three parts; the span part is the text ".<digits>" or absent.       *)
(***************************************************************************)
\* the character "." that starts the span group
Dot == 46

\* the texts ".2" and ".10": as numbers 2 < 10, as str "10" < "2"
DotTwo == <<Dot, 50>>
DotTen == <<Dot, 49, 48>>

TraceJson == "pt.trace.json"
TraceJsonGz == "pt.trace.json.gz"

WorkerNames == {"worker0", "worker1"}

\* a communication node as the parser hands it over: no real_time_ranges yet
CommNode(id, krs) == [comm_id |-> id, kernel_ranges |-> krs, real_time_ranges |-> <<>>]

\* what a trace file holds for the distributed view
Trace(hc, nodes) == [has_communication |-> hc, comm_node_list |-> nodes]

FileName(w, s, e) == [worker |-> w, span |-> s, ext |-> e]

DirEntry(n, d, t) == [name |-> n, isdir |-> d, trace |-> t]

\* the entries a run directory of the model is listed from
DirEntries ==
    { DirEntry(FileName("worker0", None, TraceJson), FALSE,
               Trace(TRUE, <<CommNode(0, <<<<0, 2>>>>)>>)),
      DirEntry(FileName("worker0", Some(DotTwo), TraceJson), FALSE,
               Trace(TRUE, <<CommNode(0, <<<<0, 2>>>>), CommNode(1, <<<<3, 5>>>>)>>)),
      DirEntry(FileName("worker0", Some(DotTwo), TraceJsonGz), FALSE,
               Trace(TRUE, <<CommNode(0, <<<<0, 2>>>>), CommNode(1, <<<<3, 5>>>>)>>)),
      DirEntry(FileName("worker0", Some(DotTen), TraceJson), FALSE,
               Trace(TRUE, <<CommNode(1, <<<<1, 4>>>>)>>)),
      DirEntry(FileName("worker1", Some(DotTwo), TraceJson), FALSE,
               Trace(FALSE, <<>>)),
      DirEntry(FileName("worker1", None, TraceJsonGz), FALSE,
               Trace(TRUE, <<CommNode(0, <<<<1, 2>>>>), CommNode(1, <<<<2, 3>>>>)>>)),
      DirEntry(FileName("notes", None, "txt"), FALSE, Trace(FALSE, <<>>)),
      DirEntry(FileName("worker1", Some(DotTen), TraceJson), TRUE, Trace(FALSE, <<>>)) }

\* io.listdir: every listing of at most MaxEntries entries, no name twice
Listings ==
    UNION { { l \in [1..n -> DirEntries] :
                \A i, j \in 1..n : i # j => l[i].name # l[j].name } : n \in 0..MaxEntries }

(***************************************************************************)
(* consts.WORKER_PATTERN.match: the name ends in .pt.trace.json or         *)
(* .pt.trace.json.gz; group 1 is the worker, group 2 the span text with    *)
(* its dot, None for a name without one.                                   *)
(***************************************************************************)
WorkerPatternMatch(name) ==
    IF name.ext \in {TraceJson, TraceJsonGz}
    THEN Some([group1 |-> name.worker, group2 |-> name.span])
    ELSE None

(***************************************************************************)
(* str comparison and bisect.insort (insort_right) on a sorted list.       *)
(***************************************************************************)
RECURSIVE StrLess(_, _)
StrLess(a, b) ==
    IF b = <<>> THEN FALSE
    ELSE IF a = <<>> THEN TRUE
    ELSE IF a[1] # b[1] THEN a[1] < b[1]
    ELSE StrLess(Tail(a), Tail(b))

\* bisect_right: the first position whose element is greater than x
BisectRight(a, x) ==
    IF \E i \in DOMAIN a : StrLess(x, a[i])
    THEN CHOOSE i \in DOMAIN a : StrLess(x, a[i]) /\ \A k \in 1..(i - 1) : ~StrLess(x, a[k])
    ELSE Len(a) + 1

Insort(a, x) == InsertAt(a, BisectRight(a, x), x)

(***************************************************************************)
(* Lines 45-48: span_index_map[(worker, span)] = i for i, span in          *)
(* enumerate(span_array, 1); a later assignment to a key replaces the      *)
(* earlier one.                                                            *)
(***************************************************************************)
MapPut(m, k, v) == [x \in (DOMAIN m) \cup {k} |-> IF x = k THEN v ELSE m[x]]

RECURSIVE EnumerateSpans(_, _, _, _)
EnumerateSpans(m, worker, span_array, i) ==
    IF i > Len(span_array) THEN m
    ELSE EnumerateSpans(MapPut(m, <<worker, span_array[i]>>, i), worker, span_array, i + 1)

RECURSIVE SpanIndexMapOver(_, _, _)
SpanIndexMapOver(m, sbw, ws) ==
    IF ws = {} THEN m
    ELSE LET w == CHOOSE w \in ws : TRUE
         IN SpanIndexMapOver(EnumerateSpans(m, w, sbw[w], 1), sbw, ws \ {w})

SpanIndexMap(sbw) == SpanIndexMapOver(<<>>, sbw, DOMAIN sbw)

(***************************************************************************)
(* Run (run.py), as far as the loader uses it: an ordered collection of    *)
(* fragments, each carrying its worker and span.                           *)
(***************************************************************************)
AddProfile(r, p) == Append(r, p)

\* the fragments of one span, in the order they were added
RECURSIVE GetProfiles(_, _)
GetProfiles(r, span) ==
    IF r = <<>> THEN <<>>
    ELSE IF Head(r).span = span THEN <<Head(r)>> \o GetProfiles(Tail(r), span)
    ELSE GetProfiles(Tail(r), span)

RECURSIVE SortedSeq(_)
SortedSeq(S) ==
    IF S = {} THEN <<>>
    ELSE LET m == CHOOSE x \in S : \A y \in S : x <= y
         IN <<m>> \o SortedSeq(S \ {m})

\* None when the run defines no span, else its span indices in ascending order
GetSpans(r) ==
    LET spans == {r[i].span[1] : i \in {k \in DOMAIN r : r[k].span # None}}
    IN IF spans = {} THEN None ELSE Some(SortedSeq(spans))

(***************************************************************************)
(* _process_distributed_profiles, lines 118-195.                           *)
(***************************************************************************)
\* float('inf'), line 123 and line 128
Inf == -1

MinF(a, b) == IF a = Inf THEN b ELSE IF b = Inf THEN a ELSE IF a < b THEN a ELSE b

MaxF(a, b) == IF a = Inf \/ b = Inf THEN Inf ELSE IF a > b THEN a ELSE b

LeqF(a, b) == b = Inf \/ (a # Inf /\ a <= b)

\* lines 128-132: the smallest and the largest comm_id of one list
RECURSIVE CurMinId(_, _)
CurMinId(nodes, acc) ==
    IF nodes = <<>> THEN acc ELSE CurMinId(Tail(nodes), MinF(acc, Head(nodes).comm_id))

RECURSIVE CurMaxId(_, _)
CurMaxId(nodes, acc) ==
    IF nodes = <<>> THEN acc ELSE CurMaxId(Tail(nodes), MaxF(acc, Head(nodes).comm_id))

\* line 126 without the test of comm_node_list
EligibleByFlag(data) == data.has_communication

\* line 126: the fragment takes part in the distributed view
Eligible(data) == data.has_communication /\ data.comm_node_list # <<>>

\* lines 124-137: st.n is len(comm_node_lists); the scan stops at the first
\* fragment that is not eligible
RECURSIVE ScanProfiles(_, _, _)
ScanProfiles(profiles, k, st) ==
    IF k > Len(profiles) THEN st
    ELSE IF Eligible(profiles[k])
    THEN ScanProfiles(profiles, k + 1,
             [st EXCEPT !.n = k,
                        !.min_id = MaxF(@, CurMinId(profiles[k].comm_node_list, Inf)),
                        !.max_id = MinF(@, CurMaxId(profiles[k].comm_node_list, 0))])
    ELSE [st EXCEPT !.has_communication = FALSE]

EligibilityScan(profiles) ==
    ScanProfiles(profiles, 1,
                 [has_communication |-> TRUE, n |-> 0, min_id |-> 0, max_id |-> Inf])

\* comm_node_lists after the scan: the lists of the first n fragments themselves
ScannedLists(profiles, n) == [k \in 1..n |-> profiles[k].comm_node_list]

\* line 142
InIdRange(id, lo, hi) == LeqF(lo, id) /\ LeqF(id, hi)

\* lines 140-145 with j advanced after a pop as well
RECURSIVE TrimListSkipping(_, _, _, _)
TrimListSkipping(nodes, j, lo, hi) ==
    IF j > Len(nodes) THEN nodes
    ELSE IF InIdRange(nodes[j].comm_id, lo, hi) THEN TrimListSkipping(nodes, j + 1, lo, hi)
    ELSE TrimListSkipping(RemoveAt(nodes, j), j + 1, lo, hi)

\* lines 140-145: pop every node whose comm_id is outside [lo, hi]
RECURSIVE TrimList(_, _, _, _)
TrimList(nodes, j, lo, hi) ==
    IF j > Len(nodes) THEN nodes
    ELSE IF InIdRange(nodes[j].comm_id, lo, hi) THEN TrimList(nodes, j + 1, lo, hi)
    ELSE TrimList(RemoveAt(nodes, j), j, lo, hi)

\* lines 139-149: trim list i, then compare its length with list 0's
RECURSIVE TrimFrom(_, _, _, _)
TrimFrom(lists, i, lo, hi) ==
    IF i > Len(lists) THEN [has_communication |-> TRUE, lists |-> lists]
    ELSE LET trimmed == [lists EXCEPT ![i] = TrimList(lists[i], 1, lo, hi)]
         IN IF Len(trimmed[i]) # Len(trimmed[1])
            THEN [has_communication |-> FALSE, lists |-> trimmed]
            ELSE TrimFrom(trimmed, i + 1, lo, hi)

\* lines 139-149 with lists that the trim emptied counted as no communication
RangeTrimNeedingNodes(lists, lo, hi) ==
    LET trim == TrimFrom(lists, 1, lo, hi)
    IN IF trim.has_communication /\ Len(trim.lists) > 0 /\ Len(trim.lists[1]) = 0
       THEN [has_communication |-> FALSE, lists |-> trim.lists]
       ELSE trim

RangeTrim(lists, lo, hi) == TrimFrom(lists, 1, lo, hi)

\* lines 160-163
RaggedKernel(lists, i) ==
    \E j \in 2..Len(lists) :
        Len(lists[1][i].kernel_ranges) # Len(lists[j][i].kernel_ranges)

\* lines 157-169 with the loop left after the first pop
RaggedFromOnce(lists, i) ==
    IF i < 1 THEN lists
    ELSE IF RaggedKernel(lists, i) THEN [k \in DOMAIN lists |-> RemoveAt(lists[k], i)]
    ELSE lists

\* lines 157-169 with the scan going on past a position that is not ragged
RECURSIVE RaggedFromEvery(_, _)
RaggedFromEvery(lists, i) ==
    IF i < 1 THEN lists
    ELSE IF RaggedKernel(lists, i)
    THEN RaggedFromEvery([k \in DOMAIN lists |-> RemoveAt(lists[k], i)], i - 1)
    ELSE RaggedFromEvery(lists, i - 1)

\* lines 157-169: drop position i from every list while it is ragged
RECURSIVE RaggedFrom(_, _)
RaggedFrom(lists, i) ==
    IF i < 1 THEN lists
    ELSE IF RaggedKernel(lists, i)
    THEN RaggedFrom([k \in DOMAIN lists |-> RemoveAt(lists[k], i)], i - 1)
    ELSE lists

RaggedTrim(lists) == RaggedFrom(lists, Len(lists[1]))

\* lines 175-185: the smallest duration of kernel range j of node i; m starts
\* as sys.maxsize, which every duration is below
Duration(kr) == kr[2] - kr[1]

\* lines 175-185 with the duration of the first worker taken as the minimum
MinRangeOfFirst(lists, i, j, k, m) == Some(Duration(lists[1][i].kernel_ranges[j]))

RECURSIVE MinRange(_, _, _, _, _)
MinRange(lists, i, j, k, m) ==
    IF k > Len(lists) THEN m
    ELSE LET d == Duration(lists[k][i].kernel_ranges[j])
         IN MinRange(lists, i, j, k + 1, IF m = None \/ d < m[1] THEN Some(d) ELSE m)

\* lines 186-188
AppendRealTime(lists, i, j, min_range) ==
    [k \in DOMAIN lists |->
        [lists[k] EXCEPT ![i].real_time_ranges =
            Append(@, <<lists[k][i].kernel_ranges[j][2] - min_range,
                        lists[k][i].kernel_ranges[j][2]>>)]]

\* line 179, for the workers of one (i, j)
KernelCountMismatch(lists, i) ==
    \E k \in DOMAIN lists :
        Len(lists[k][i].kernel_ranges) # Len(lists[1][i].kernel_ranges)

\* lines 171-188
RECURSIVE RealTimeFrom(_, _, _)
RealTimeFrom(lists, i, j) ==
    IF i > Len(lists[1]) THEN [ok |-> TRUE, lists |-> lists]
    ELSE IF j > Len(lists[1][i].kernel_ranges) THEN RealTimeFrom(lists, i + 1, 1)
    ELSE IF KernelCountMismatch(lists, i) THEN [ok |-> FALSE, lists |-> lists]
    ELSE RealTimeFrom(AppendRealTime(lists, i, j, MinRange(lists, i, j, 1, None)[1]), i, j + 1)

RealTime(lists) == RealTimeFrom(lists, 1, 1)

\* lines 190-191: every fragment of the group parses its own (trimmed) list
CommunicationParse(profiles, lists) ==
    [k \in DOMAIN profiles |->
        [profiles[k] EXCEPT !.comm_node_list = IF k \in DOMAIN lists THEN lists[k] ELSE @,
                            !.parsed = TRUE]]

NoProfile == [kind |-> "none", span |-> None, data |-> <<>>]
Raised == [kind |-> "raise", span |-> None, data |-> <<>>]
DistributedProfile(profiles, span) == [kind |-> "profile", span |-> span, data |-> profiles]

\* lines 118-195 as a whole: None, an IndexError at line 157, or the profile
ProcessDistributedProfiles(profiles, span) ==
    LET scan == EligibilityScan(profiles)
        lists == ScannedLists(profiles, scan.n)
        trim == IF scan.has_communication
                THEN RangeTrim(lists, scan.min_id, scan.max_id)
                ELSE [has_communication |-> FALSE, lists |-> lists]
    IN IF ~trim.has_communication THEN NoProfile
       ELSE IF Len(trim.lists) = 0 THEN Raised
       ELSE LET real == RealTime(RaggedTrim(trim.lists))
            IN IF ~real.ok THEN NoProfile
               ELSE DistributedProfile(CommunicationParse(profiles, real.lists), span)

(***************************************************************************)
(* The state.  load: the listing of run_dir, load's position and locals,   *)
(* the started processes and the queue.  _process_distributed_profiles run *)
(* on its own: its argument, its position and its locals.                  *)
(***************************************************************************)
VARIABLES run_dir, pc, cursor, workers, spans_by_workers, span_index_map,
          procs, queue, num_items, run, distributed_run,
          profiles, apc, comm_node_lists, has_communication, min_id, max_id, result

loadVars == <<run_dir, pc, cursor, workers, spans_by_workers, span_index_map,
              procs, queue, num_items, run, distributed_run>>

alignVars == <<profiles, apc, comm_node_lists, has_communication, min_id, max_id, result>>

vars == <<run_dir, pc, cursor, workers, spans_by_workers, span_index_map,
          procs, queue, num_items, run, distributed_run,
          profiles, apc, comm_node_lists, has_communication, min_id, max_id, result>>

LoadIdle ==
    /\ run_dir = <<>>
    /\ pc = "idle"
    /\ cursor = 1
    /\ workers = <<>>
    /\ spans_by_workers = <<>>
    /\ span_index_map = <<>>
    /\ procs = <<>>
    /\ queue = <<>>
    /\ num_items = 0
    /\ run = <<>>
    /\ distributed_run = <<>>

AlignIdle ==
    /\ profiles = <<>>
    /\ apc = "idle"
    /\ comm_node_lists = <<>>
    /\ has_communication = TRUE
    /\ min_id = 0
    /\ max_id = Inf
    /\ result = NoProfile

(***************************************************************************)
(* load, lines 26-77.                                                      *)
(***************************************************************************)
\* lines 30-34 without the io.isdir test
SkippedUnlessMatched(e) == WorkerPatternMatch(e.name) = None

\* lines 30-34: the entry is passed over
Skipped(e) == e.isdir \/ WorkerPatternMatch(e.name) = None

\* line 40: remove the starting dot
StripDot(span) == Tail(span)

\* lines 36-40: (worker, span) of a matched name
WorkerOf(name) == WorkerPatternMatch(name)[1].group1

SpanOf(name) ==
    LET span == WorkerPatternMatch(name)[1].group2
    IN IF span # None THEN Some(StripDot(span[1])) ELSE None

\* spans_by_workers[worker] of a defaultdict(list)
SpansOf(sbw, worker) == IF worker \in DOMAIN sbw THEN sbw[worker] ELSE <<>>

\* lines 29-43, one entry of the listing
ScanPath ==
    /\ pc = "listdir"
    /\ cursor <= Len(run_dir)
    /\ LET e == run_dir[cursor]
       IN IF Skipped(e)
          THEN UNCHANGED <<workers, spans_by_workers>>
          ELSE LET worker == WorkerOf(e.name)
                   span == SpanOf(e.name)
               IN /\ spans_by_workers' =
                        IF span # None
                        THEN MapPut(spans_by_workers, worker,
                                    Insort(SpansOf(spans_by_workers, worker), span[1]))
                        ELSE spans_by_workers
                  /\ workers' = Append(workers, [worker |-> worker, span |-> span,
                                                 path |-> e.name])
    /\ cursor' = cursor + 1
    /\ UNCHANGED <<run_dir, pc, span_index_map, procs, queue, num_items, run,
                   distributed_run>>
    /\ UNCHANGED alignVars

\* lines 45-48
BuildSpanIndexMap ==
    /\ pc = "listdir"
    /\ cursor > Len(run_dir)
    /\ span_index_map' = SpanIndexMap(spans_by_workers)
    /\ pc' = "start"
    /\ cursor' = 1
    /\ UNCHANGED <<run_dir, workers, spans_by_workers, procs, queue, num_items, run,
                   distributed_run>>
    /\ UNCHANGED alignVars

\* line 52: convert the span timestamp to the index
SpanIndex(map, worker, span) == IF span = None THEN None ELSE Some(map[<<worker, span[1]>>])

\* lines 50-54: Process(target=self._process_data, args=(worker, span_index, path))
StartProcess ==
    /\ pc = "start"
    /\ cursor <= Len(workers)
    /\ LET w == workers[cursor]
       IN procs' = Append(procs, [worker |-> w.worker,
                                  span |-> SpanIndex(span_index_map, w.worker, w.span),
                                  path |-> w.path,
                                  state |-> "running",
                                  puts |-> 0])
    /\ cursor' = cursor + 1
    /\ UNCHANGED <<run_dir, pc, workers, spans_by_workers, span_index_map, queue,
                   num_items, run, distributed_run>>
    /\ UNCHANGED alignVars

\* lines 55-59
StartedAll ==
    /\ pc = "start"
    /\ cursor > Len(workers)
    /\ distributed_run' = <<>>
    /\ run' = <<>>
    /\ num_items' = Len(workers)
    /\ pc' = "collect"
    /\ UNCHANGED <<run_dir, cursor, workers, spans_by_workers, span_index_map, procs,
                   queue>>
    /\ UNCHANGED alignVars

(***************************************************************************)
(* _process_data, lines 79-103, in its own process.                        *)
(***************************************************************************)
\* the file the process reads
FileAt(path) == CHOOSE e \in Range(run_dir) : e.name = path

\* line 91: the run-level fragment of (worker, span, data)
RunProfile(p) == [worker |-> p.worker, span |-> p.span, path |-> p.path]

\* line 92: DistributedRunProfileData(data)
DistData(p) ==
    [worker |-> p.worker, span |-> p.span,
     has_communication |-> FileAt(p.path).trace.has_communication,
     comm_node_list |-> FileAt(p.path).trace.comm_node_list,
     parsed |-> FALSE]

Item(r, d) == [r |-> r, d |-> d]

\* line 95: what a process that got through lines 84-92 puts on the queue
ParsedItem(p) == Item(Some(RunProfile(p)), Some(DistData(p)))

\* line 102
FailedItem == Item(None, None)

Running(i) == i \in DOMAIN procs /\ procs[i].state = "running"

\* lines 84-95: cache, parse and generate succeed
ProcessDataPut(i) ==
    /\ Running(i)
    /\ queue' = Append(queue, ParsedItem(procs[i]))
    /\ procs' = [procs EXCEPT ![i].state = "put", ![i].puts = @ + 1]
    /\ UNCHANGED <<run_dir, pc, cursor, workers, spans_by_workers, span_index_map,
                   num_items, run, distributed_run>>
    /\ UNCHANGED alignVars

\* lines 99-102: an Exception in lines 84-92
ProcessDataFailed(i) ==
    /\ Running(i)
    /\ queue' = Append(queue, FailedItem)
    /\ procs' = [procs EXCEPT ![i].state = "failed", ![i].puts = @ + 1]
    /\ UNCHANGED <<run_dir, pc, cursor, workers, spans_by_workers, span_index_map,
                   num_items, run, distributed_run>>
    /\ UNCHANGED alignVars

\* lines 96-98: a KeyboardInterrupt in lines 84-95, sys.exit(1)
ProcessDataInterrupted(i) ==
    /\ Running(i)
    /\ procs' = [procs EXCEPT ![i].state = "exited"]
    /\ UNCHANGED <<run_dir, pc, cursor, workers, spans_by_workers, span_index_map,
                   queue, num_items, run, distributed_run>>
    /\ UNCHANGED alignVars

(***************************************************************************)
(* load, lines 60-77: the collection loop and the span stage.              *)
(***************************************************************************)
\* lines 66-67 without the test for None
CollectRunUnchecked(r, item) == AddProfile(r, item.r)

\* lines 66-67
CollectRun(r, item) == IF item.r # None THEN AddProfile(r, item.r[1]) ELSE r

\* lines 68-69 with the fragment replacing an earlier one of its worker and span
SameKey(a, b) == a.worker = b.worker /\ a.span = b.span

RECURSIVE Without(_, _)
Without(dr, d) ==
    IF dr = <<>> THEN <<>>
    ELSE IF SameKey(Head(dr), d) THEN Without(Tail(dr), d)
    ELSE <<Head(dr)>> \o Without(Tail(dr), d)

CollectDistributedKeyed(dr, item) ==
    IF item.d # None THEN AddProfile(Without(dr, item.d[1]), item.d[1]) ELSE dr

\* lines 68-69
CollectDistributed(dr, item) == IF item.d # None THEN AddProfile(dr, item.d[1]) ELSE dr

\* lines 60-69, one turn of the loop; queue.get blocks on an empty queue
QueueGet ==
    /\ pc = "collect"
    /\ num_items > 0
    /\ queue # <<>>
    /\ num_items' = num_items - 1
    /\ run' = CollectRun(run, Head(queue))
    /\ distributed_run' = CollectDistributed(distributed_run, Head(queue))
    /\ queue' = Tail(queue)
    /\ UNCHANGED <<run_dir, pc, cursor, workers, spans_by_workers, span_index_map, procs>>
    /\ UNCHANGED alignVars

\* _process_spans, lines 105-116, before None results are dropped
ProcessSpans(dr) ==
    LET spans == GetSpans(dr)
    IN IF spans = None
       THEN <<ProcessDistributedProfiles(dr, None)>>
       ELSE [i \in DOMAIN spans[1] |->
                ProcessDistributedProfiles(GetProfiles(dr, Some(spans[1][i])),
                                           Some(spans[1][i]))]

\* lines 72-74 with the loop left at the first result that is None
RECURSIVE AddDistributedUntilNone(_, _)
AddDistributedUntilNone(r, ds) ==
    IF ds = <<>> THEN r
    ELSE IF Head(ds).kind # "none"
    THEN AddDistributedUntilNone(AddProfile(r, Head(ds)), Tail(ds))
    ELSE r

\* lines 72-74 (and 114-115): every result that is not None is added
RECURSIVE AddDistributed(_, _)
AddDistributed(r, ds) ==
    IF ds = <<>> THEN r
    ELSE IF Head(ds).kind # "none" THEN AddDistributed(AddProfile(r, Head(ds)), Tail(ds))
    ELSE AddDistributed(r, Tail(ds))

\* lines 60, 71-77: the loop is over; an exception of the span stage leaves load
SpanStage ==
    /\ pc = "collect"
    /\ num_items = 0
    /\ LET ds == ProcessSpans(distributed_run)
       IN IF \E i \in DOMAIN ds : ds[i].kind = "raise"
          THEN /\ pc' = "raised"
               /\ run' = run
          ELSE /\ pc' = "returned"
               /\ run' = AddDistributed(run, ds)
    /\ UNCHANGED <<run_dir, cursor, workers, spans_by_workers, span_index_map, procs,
                   queue, num_items, distributed_run>>
    /\ UNCHANGED alignVars

Init ==
    /\ run_dir \in Listings
    /\ pc = "listdir"
    /\ cursor = 1
    /\ workers = <<>>
    /\ spans_by_workers = <<>>
    /\ span_index_map = <<>>
    /\ procs = <<>>
    /\ queue = <<>>
    /\ num_items = 0
    /\ run = <<>>
    /\ distributed_run = <<>>
    /\ AlignIdle

Next ==
    \/ ScanPath
    \/ BuildSpanIndexMap
    \/ StartProcess
    \/ StartedAll
    \/ \E i \in 1..MaxEntries + 1 : ProcessDataPut(i)
    \/ \E i \in 1..MaxEntries + 1 : ProcessDataFailed(i)
    \/ \E i \in 1..MaxEntries + 1 : ProcessDataInterrupted(i)
    \/ QueueGet
    \/ SpanStage

Spec == Init /\ [][Next]_vars

(***************************************************************************)
(* _process_distributed_profiles on its own, one action per stage.  The    *)
(* variable profiles keeps the group as it was passed in; comm_node_lists  *)
(* holds the lists the stages pop from and annotate (in the code these are *)
(* the fragments' own list objects, which CommunicationParse hands back).  *)
(***************************************************************************)
\* the largest number of fragments in one group
MaxWorkers == 2
\* comm_node_lists of any order: at most MaxNodes nodes, comm_ids 0..MaxSeqId
MaxNodes == 2
MaxSeqId == 1
\* comm_node_lists with increasing comm_ids out of 0..MaxCommId
MaxCommId == 3
\* groups that differ in their kernel_ranges: at most MaxPositions nodes each
MaxPositions == 2

WorkerName(k) == "worker" \o ToString(k - 1)

Fragment(k, hc, nodes) ==
    [worker |-> WorkerName(k), span |-> None, has_communication |-> hc,
     comm_node_list |-> nodes, parsed |-> FALSE]

OneKernel == <<<<0, 1>>>>

\* every list of at most MaxNodes nodes with comm_ids in 0..MaxSeqId
IdSeqs ==
    UNION { [1..n -> {CommNode(id, OneKernel) : id \in 0..MaxSeqId}] : n \in 0..MaxNodes }

RECURSIVE NodesOfIds(_)
NodesOfIds(ids) ==
    IF ids = {} THEN <<>>
    ELSE LET m == CHOOSE x \in ids : \A y \in ids : x <= y
         IN <<CommNode(m, OneKernel)>> \o NodesOfIds(ids \ {m})

\* every list whose comm_ids increase, out of 0..MaxCommId
IdRuns == {NodesOfIds(ids) : ids \in SUBSET (0..MaxCommId)}

\* the kernel_ranges a node of the third family carries
KernelRanges ==
    { <<>>, <<<<0, 2>>>>, <<<<0, 2>>, <<3, 5>>>>, <<<<1, 2>>, <<2, 5>>>> }

\* every list of exactly n nodes, comm_ids 0..n-1, kernel_ranges out of KernelRanges
KernelLists(n) ==
    { [i \in 1..n |-> CommNode(i - 1, ks[i])] : ks \in [1..n -> KernelRanges] }

\* a fragment whose has_communication is false, although it has a node
NoCommunication == Trace(FALSE, <<CommNode(0, OneKernel)>>)

\* the traces one group is drawn from: one of the three families
TraceFamilies ==
    { {Trace(TRUE, nodes) : nodes \in IdSeqs} \cup {NoCommunication},
      {Trace(TRUE, nodes) : nodes \in IdRuns} \cup {NoCommunication} }
    \cup { {Trace(TRUE, nodes) : nodes \in KernelLists(n)} : n \in 1..MaxPositions }

SameFamily(ps, t) ==
    \E F \in TraceFamilies :
        /\ t \in F
        /\ \A k \in DOMAIN ps : Trace(ps[k].has_communication, ps[k].comm_node_list) \in F

\* line 69 and lines 108, 112: one more fragment in the group that is passed in
AlignAddFragment ==
    /\ apc = "group"
    /\ Len(profiles) < MaxWorkers
    /\ \E t \in UNION TraceFamilies :
          /\ SameFamily(profiles, t)
          /\ profiles' = Append(profiles, Fragment(Len(profiles) + 1, t.has_communication,
                                                   t.comm_node_list))
    /\ UNCHANGED <<apc, comm_node_lists, has_communication, min_id, max_id, result>>
    /\ UNCHANGED loadVars

\* lines 119-137
AlignScan ==
    /\ apc = "group"
    /\ LET scan == EligibilityScan(profiles)
       IN /\ has_communication' = scan.has_communication
          /\ comm_node_lists' = ScannedLists(profiles, scan.n)
          /\ min_id' = scan.min_id
          /\ max_id' = scan.max_id
    /\ apc' = "trim"
    /\ UNCHANGED <<profiles, result>>
    /\ UNCHANGED loadVars

\* lines 138-154: the range trim, then return None without communication
AlignRangeTrim ==
    /\ apc = "trim"
    /\ LET trim == IF has_communication
                   THEN RangeTrim(comm_node_lists, min_id, max_id)
                   ELSE [has_communication |-> FALSE, lists |-> comm_node_lists]
       IN /\ has_communication' = trim.has_communication
          /\ comm_node_lists' = trim.lists
          /\ IF trim.has_communication
             THEN /\ apc' = "ragged"
                  /\ result' = result
             ELSE /\ apc' = "done"
                  /\ result' = NoProfile
    /\ UNCHANGED <<profiles, min_id, max_id>>
    /\ UNCHANGED loadVars

\* lines 156-169: comm_node_lists[0] of no list at all is an IndexError
AlignRaggedTrim ==
    /\ apc = "ragged"
    /\ IF Len(comm_node_lists) = 0
       THEN /\ apc' = "done"
            /\ result' = Raised
            /\ comm_node_lists' = comm_node_lists
       ELSE /\ apc' = "real"
            /\ result' = result
            /\ comm_node_lists' = RaggedTrim(comm_node_lists)
    /\ UNCHANGED <<profiles, has_communication, min_id, max_id>>
    /\ UNCHANGED loadVars

\* lines 171-188
AlignRealTime ==
    /\ apc = "real"
    /\ LET real == RealTime(comm_node_lists)
       IN /\ comm_node_lists' = real.lists
          /\ IF real.ok
             THEN /\ apc' = "finalize"
                  /\ result' = result
                  /\ has_communication' = has_communication
             ELSE /\ apc' = "done"
                  /\ result' = NoProfile
                  /\ has_communication' = FALSE
    /\ UNCHANGED <<profiles, min_id, max_id>>
    /\ UNCHANGED loadVars

\* lines 190-195
AlignFinalize ==
    /\ apc = "finalize"
    /\ result' = DistributedProfile(CommunicationParse(profiles, comm_node_lists), None)
    /\ apc' = "done"
    /\ UNCHANGED <<profiles, comm_node_lists, has_communication, min_id, max_id>>
    /\ UNCHANGED loadVars

InitAlign ==
    /\ LoadIdle
    /\ profiles = <<>>
    /\ apc = "group"
    /\ comm_node_lists = <<>>
    /\ has_communication = TRUE
    /\ min_id = 0
    /\ max_id = Inf
    /\ result = NoProfile

NextAlign ==
    \/ AlignAddFragment
    \/ AlignScan
    \/ AlignRangeTrim
    \/ AlignRaggedTrim
    \/ AlignRealTime
    \/ AlignFinalize

SpecAlign == InitAlign /\ [][NextAlign]_vars

(***************************************************************************)
(* Properties of load and _process_data, checked under Spec.               *)
(***************************************************************************)
Ended(i) == procs[i].state # "running"

\* every file of the listing has been looked at and every process started
AllStarted == pc \in {"collect", "returned", "raised"}

\* the collection loop is over and the span stage has not run yet
LoopOver == pc = "collect" /\ num_items = 0

Succeeded == {i \in DOMAIN procs : procs[i].state = "put"}

Failed == {i \in DOMAIN procs : procs[i].state = "failed"}

\* the entries of the listing that are trace files: not a directory, and a
\* name that ends in .pt.trace.json or .pt.trace.json.gz
TraceFiles ==
    {k \in DOMAIN run_dir :
        ~run_dir[k].isdir /\ run_dir[k].name.ext \in {TraceJson, TraceJsonGz}}

\* C1: every process that has ended, by success, by a caught error or by an
\* interrupt, has put exactly one item on the queue.
C1_ExactlyOneItemPerTask ==
    \A i \in DOMAIN procs : Ended(i) => procs[i].puts = 1

\* C2: once every started process has ended, the collection loop is not left
\* waiting on an empty queue: it has received all its N items.
C2_CollectorNotLeftWaiting ==
    (pc = "collect" /\ queue = <<>> /\ \A i \in DOMAIN procs : Ended(i))
        => num_items = 0

\* C3: when the collection loop finishes, the Run holds as many run-level
\* fragments as processes succeeded, at most as many as there are trace
\* files, and none from a process that put (None, None).
C3_FragmentsAreTheSuccesses ==
    LoopOver =>
        /\ Len(run) = Cardinality(Succeeded)
        /\ Len(run) <= Cardinality(TraceFiles)
        /\ \A i \in Failed : \A k \in DOMAIN run : run[k].path # procs[i].path

C3_Witness ==
    /\ LoopOver
    /\ Cardinality(Succeeded) = 2
    /\ Cardinality(Failed) = 1

\* C4: when a process fails with an Exception, it puts (None, None), no
\* exception leaves load, and the Run load returns holds the fragment of
\* every process that succeeded.
C4_FailureIsContained ==
    Failed # {} =>
        /\ \A i \in Failed : procs[i].puts = 1
        /\ pc # "raised"
        /\ pc = "returned" =>
              \A i \in Succeeded : \E k \in DOMAIN run : run[k] = RunProfile(procs[i])

\* C5: whatever the order in which the items arrived, when the loop finishes
\* the Run holds exactly the run-level fragments of the processes that
\* succeeded, and each span groups exactly their distributed fragments.
C5_ArrivalOrderIsIrrelevant ==
    LoopOver =>
        /\ Range(run) = {RunProfile(procs[i]) : i \in Succeeded}
        /\ Len(run) = Cardinality(Succeeded)
        /\ \A s \in {procs[i].span : i \in DOMAIN procs} :
              LET group == GetProfiles(distributed_run, s)
                  tasks == {i \in Succeeded : procs[i].span = s}
              IN /\ Range(group) = {DistData(procs[i]) : i \in tasks}
                 /\ Len(group) = Cardinality(tasks)
        /\ Len(distributed_run) = Cardinality(Succeeded)

\* three items have arrived in an order that is not the order of the starts
C5_Witness ==
    /\ LoopOver
    /\ Len(run) = 3
    /\ run[1] = RunProfile(procs[3])
    /\ run[2] = RunProfile(procs[1])
    /\ procs[1].span = procs[2].span

\* the started processes of one worker whose file carries a span
SpanTasks(w) == {i \in DOMAIN procs : procs[i].worker = w /\ workers[i].span # None}

\* C6: the span indices of the files of one worker are exactly 1..k for its k
\* files with a span, in the order of the span timestamps.
C6_SpanIndicesAreOneToK ==
    AllStarted =>
        \A w \in WorkerNames :
            /\ {procs[i].span[1] : i \in SpanTasks(w)} = 1..Cardinality(SpanTasks(w))
            /\ \A i, j \in SpanTasks(w) :
                  StrLess(workers[i].span[1], workers[j].span[1])
                      => procs[i].span[1] < procs[j].span[1]

\* C7: two files of one worker with the same span timestamp are started with
\* different span indices.
C7_EqualSpansGetDistinctIndices ==
    AllStarted =>
        \A w \in WorkerNames : \A i, j \in SpanTasks(w) :
            (i # j /\ workers[i].span = workers[j].span) => procs[i].span # procs[j].span

\* C8: one process is started for every trace file of the listing and none
\* for any other entry; a file without a span is started with span index
\* None; the loop expects as many items as processes were started.
C8_OneTaskPerTraceFile ==
    AllStarted =>
        /\ Len(procs) = Cardinality(TraceFiles)
        /\ \A k \in DOMAIN run_dir :
              Cardinality({i \in DOMAIN procs : procs[i].path = run_dir[k].name})
                  = IF k \in TraceFiles THEN 1 ELSE 0
        /\ \A i \in DOMAIN procs : procs[i].path.span = None => procs[i].span = None
        /\ \A i \in DOMAIN procs : procs[i].path.span # None => procs[i].span # None
        /\ pc = "collect" =>
              num_items + Cardinality(Succeeded \cup Failed) - Len(queue) = Len(procs)

\* a listing with a directory named like a trace file, a span-less trace file
\* and a trace file with a span
C8_Witness ==
    /\ AllStarted
    /\ Len(procs) = 2
    /\ \E k \in DOMAIN run_dir : run_dir[k].isdir
    /\ \E i \in DOMAIN procs : procs[i].span = None
    /\ \E i \in DOMAIN procs : procs[i].span # None

(***************************************************************************)
(* Properties of _process_distributed_profiles, checked under SpecAlign.   *)
(***************************************************************************)
\* the fragment fails the requirement of line 126
Ineligible(data) == ~data.has_communication \/ Len(data.comm_node_list) = 0

MinOfSet(S) == CHOOSE x \in S : \A y \in S : x <= y

MaxOfSet(S) == CHOOSE x \in S : \A y \in S : x >= y

IdsOf(data) == {data.comm_node_list[j].comm_id : j \in DOMAIN data.comm_node_list}

\* the intersection of the workers' comm_id ranges
CommonMinId == MaxOfSet({MinOfSet(IdsOf(profiles[k])) : k \in DOMAIN profiles})

CommonMaxId == MinOfSet({MaxOfSet(IdsOf(profiles[k])) : k \in DOMAIN profiles})

InCommonRange(node) == CommonMinId <= node.comm_id /\ node.comm_id <= CommonMaxId

\* C9: a group with a fragment that has no communication, or no node, ends
\* with the result None; no stage after the range check runs on it, so
\* communication_parse is called on no fragment.
C9_IneligibleFragmentGivesNone ==
    (\E k \in DOMAIN profiles : Ineligible(profiles[k])) =>
        /\ apc \in {"group", "trim", "done"}
        /\ apc = "done" => result = NoProfile

\* the second fragment is the one without communication
C9_Witness ==
    /\ apc = "done"
    /\ Len(profiles) = 2
    /\ ~Ineligible(profiles[1])
    /\ Ineligible(profiles[2])
    /\ result = NoProfile

\* C10: past the range trim (the result is not None), min_id and max_id are
\* the intersection of the workers' ranges, every list is its original
\* without the nodes outside [min_id, max_id] and otherwise unchanged, and
\* all lists have one length.
C10_RangeTrimKeepsTheCommonRange ==
    (apc = "ragged" /\ profiles # <<>>) =>
        /\ min_id = CommonMinId
        /\ max_id = CommonMaxId
        /\ Len(comm_node_lists) = Len(profiles)
        /\ \A k \in DOMAIN comm_node_lists :
              /\ comm_node_lists[k] = SelectSeq(profiles[k].comm_node_list, InCommonRange)
              /\ Len(comm_node_lists[k]) = Len(comm_node_lists[1])

\* two workers, and the trim took a node from one list and left a node
C10_Witness ==
    /\ apc = "ragged"
    /\ Len(profiles) = 2
    /\ Len(comm_node_lists[1]) >= 1
    /\ \E k \in DOMAIN comm_node_lists :
          Len(comm_node_lists[k]) < Len(profiles[k].comm_node_list)
\* the workers hold the same number of kernel_ranges at position i
SameKernelCount(i) ==
    \A k \in DOMAIN comm_node_lists :
        Len(comm_node_lists[k][i].kernel_ranges) = Len(comm_node_lists[1][i].kernel_ranges)

SameLength ==
    \A k \in DOMAIN comm_node_lists : Len(comm_node_lists[k]) = Len(comm_node_lists[1])

\* C11: after the ragged-kernel trim, the workers hold the same number of
\* kernel_ranges at every surviving position.
C11_NoRaggedPositionSurvives ==
    (apc = "real") => \A i \in DOMAIN comm_node_lists[1] : SameKernelCount(i)

\* C11, amended: after the ragged-kernel trim all lists have one length and
\* the workers hold the same number of kernel_ranges at the last surviving
\* position; a position before it may still be ragged.
C11_LastPositionIsNotRagged ==
    (apc = "real") =>
        /\ SameLength
        /\ Len(comm_node_lists[1]) > 0 => SameKernelCount(Len(comm_node_lists[1]))

\* two workers of two nodes each; the trim dropped the last position
C11_Witness ==
    /\ apc = "real"
    /\ Len(profiles) = 2
    /\ Len(profiles[1].comm_node_list) = 2
    /\ Len(profiles[2].comm_node_list) = 2
    /\ min_id = 0
    /\ max_id = 1
    /\ Len(comm_node_lists[1]) = 1
\* the duration of kernel range j of the node at position i, for each worker
DurationsAt(i, j) ==
    { comm_node_lists[w][i].kernel_ranges[j][2] - comm_node_lists[w][i].kernel_ranges[j][1] :
        w \in DOMAIN comm_node_lists }

C13_NoSuccessGivesAnEmptyRun ==
    (AllStarted /\ Succeeded = {}) =>
        /\ pc # "raised"
        /\ pc = "returned" => run = <<>>
\* the distributed profiles the returned Run holds for span s
DistributedProfilesOf(s) ==
    { k \in DOMAIN run : "kind" \in DOMAIN run[k] /\ run[k].span = s }

\* the fragments the loop collected for span s, in arrival order
SpanGroup(s) ==
    LET InSpan(d) == d.span = s
    IN SelectSeq(distributed_run, InSpan)

SpansCollected == { distributed_run[k].span : k \in DOMAIN distributed_run } \ {None}

\* C14: alignment is computed span by span: a span whose group is
\* disqualified adds no distributed profile to the returned Run, the profile
\* of every other span is added, the run-level fragments collected before
\* are kept, and no exception leaves load.
C14_SpansAreAlignedIndependently ==
    /\ (pc = "raised") => SpansCollected = {}
    /\ (pc = "returned" /\ SpansCollected # {}) =>
          /\ \A s \in SpansCollected :
                LET aligned == ProcessDistributedProfiles(SpanGroup(s), s)
                IN /\ (\E k \in DOMAIN SpanGroup(s) : Ineligible(SpanGroup(s)[k])) =>
                          DistributedProfilesOf(s) = {}
                   /\ aligned.kind = "none" => DistributedProfilesOf(s) = {}
                   /\ aligned.kind = "profile" =>
                          \E k \in DistributedProfilesOf(s) : run[k] = aligned
          /\ \A i \in Succeeded : \E k \in DOMAIN run : run[k] = RunProfile(procs[i])

\* span 1 is disqualified by a fragment without communication, span 2 is added
C14_Witness ==
    /\ pc = "returned"
    /\ Some(1) \in SpansCollected
    /\ \E k \in DOMAIN SpanGroup(Some(1)) : Ineligible(SpanGroup(Some(1))[k])
    /\ DistributedProfilesOf(Some(1)) = {}
    /\ DistributedProfilesOf(Some(2)) # {}
\* C15: whenever a profile is produced, the surviving nodes correspond one
\* to one across the workers: all lists have the same length and, at every
\* position, the nodes of all workers carry the same comm_id.
C15_SurvivingNodesCorrespond ==
    (apc = "finalize") =>
        /\ SameLength
        /\ \A k \in DOMAIN comm_node_lists : \A i \in DOMAIN comm_node_lists[k] :
              comm_node_lists[k][i].comm_id = comm_node_lists[1][i].comm_id
\* C16: when a position that survived the ragged-kernel trim still holds
\* kernel_ranges counts that differ between the workers, the real-time step
\* detects it and no profile is produced, whichever worker holds the shorter
\* list: the real-time step is passed only with equal counts everywhere.
C16_InteriorMismatchGivesNone ==
    (apc = "finalize") => \A i \in DOMAIN comm_node_lists[1] : SameKernelCount(i)
\* the nodes of worker k that the id-range trim kept, as the trim left them
AfterRangeTrim(k) == SelectSeq(profiles[k].comm_node_list, InCommonRange)

\* the workers held different numbers of kernel_ranges at position i
WasRagged(i) ==
    \E k \in DOMAIN profiles :
        Len(AfterRangeTrim(k)[i].kernel_ranges) # Len(AfterRangeTrim(1)[i].kernel_ranges)

\* C17: the ragged-kernel trim removes only a run of trailing positions, each
\* of them ragged and each from every list; it stops at the first position,
\* from the end, where the workers agree; the lists keep one length and the
\* nodes before that position are untouched.
C17_RaggedTrimDropsATrailingRun ==
    (apc = "real") =>
        LET m == Len(comm_node_lists[1])
        IN /\ \A k \in DOMAIN comm_node_lists :
                 comm_node_lists[k] = SubSeq(AfterRangeTrim(k), 1, m)
           /\ \A i \in (m + 1)..Len(AfterRangeTrim(1)) : WasRagged(i)
           /\ m > 0 => ~WasRagged(m)

\* two workers of two nodes: the last node is dropped, the first one is kept
C17_Witness ==
    /\ apc = "real"
    /\ Len(profiles) = 2
    /\ Len(AfterRangeTrim(1)) = 2
    /\ Len(comm_node_lists[1]) = 1
    /\ Len(comm_node_lists[2]) = 1
\* the same fragments, presented in the order p
Permuted(p) == [k \in DOMAIN profiles |-> profiles[p[k]]]

Orders ==
    { p \in [DOMAIN profiles -> DOMAIN profiles] :
        \A a, b \in DOMAIN profiles : a # b => p[a] # p[b] }

\* None or not, and the nodes each worker ends with
Outcome(r) ==
    [kind |-> r.kind,
     nodes |-> { <<r.data[k].worker, r.data[k].comm_node_list>> : k \in DOMAIN r.data }]

\* C18: the outcome of _process_distributed_profiles does not depend on the
\* order of the fragments of the group: every permutation gives None in the
\* same cases and otherwise leaves every worker with the same surviving nodes
\* and the same real_time_ranges.
C18_FragmentOrderIsIrrelevant ==
    (apc = "done") =>
        \A p \in Orders :
            Outcome(ProcessDistributedProfiles(Permuted(p), None)) = Outcome(result)
\* C19: whenever a profile is produced, every surviving node of every worker
\* ends with one real_time_range per kernel_range:
\* len(real_time_ranges) = len(kernel_ranges) at every (worker, node).
C19_OneRealTimeRangePerKernelRange ==
    (apc = "done" /\ result.kind = "profile") =>
        \A k \in DOMAIN result.data : \A i \in DOMAIN result.data[k].comm_node_list :
            Len(result.data[k].comm_node_list[i].real_time_ranges) =
                Len(result.data[k].comm_node_list[i].kernel_ranges)
\* C20: when every fragment of the group is eligible but the workers' comm_id
\* ranges do not overlap (min_id > max_id), the range trim empties every
\* list, the length check passes, and a profile over zero nodes is returned
\* instead of None.
C20_DisjointRangesGiveAnEmptyProfile ==
    (/\ apc = "done"
     /\ profiles # <<>>
     /\ \A k \in DOMAIN profiles : ~Ineligible(profiles[k])
     /\ CommonMinId > CommonMaxId) =>
        /\ result.kind = "profile"
        /\ Len(result.data) = Len(profiles)
        /\ \A k \in DOMAIN result.data :
              /\ result.data[k].worker = profiles[k].worker
              /\ result.data[k].comm_node_list = <<>>
              /\ result.data[k].parsed

\* two workers whose ranges are disjoint, aligned to the end
C20_Witness ==
    /\ apc = "done"
    /\ Len(profiles) = 2
    /\ \A k \in DOMAIN profiles : ~Ineligible(profiles[k])
    /\ CommonMinId > CommonMaxId
    /\ result.kind = "profile"
    /\ result.data[1].comm_node_list = <<>>
    /\ result.data[2].comm_node_list = <<>>
====
